---- MODULE Spec2Model ----
(***************************************************************************)
(* The useFlightSearch hook of src/src/FlightSearchSystem.jsx as a state   *)
(* machine.  One action per handler or callback: the three public          *)
(* operations (initializeSearch, updateFilters, loadMore), the             *)
(* continuations that run when the create-session call or a page-fetch     *)
(* call resolves, the two kinds of setTimeout callback and the unmount     *)
(* cleanup.                                                                *)
(*                                                                         *)
(* React state variables hold the value last handed to their setter.  The  *)
(* handlers read searchId, hasMore and loading through the closure of the  *)
(* last render (rendered), and pollFlights reads the page and the filters  *)
(* through pageRef and filtersRef, which only the effects of a render      *)
(* update.  A handler runs to its end on the values of the render before  *)
(* it; the re-render its setters cause (new closures, the two ref-sync     *)
(* effects) happens before the next callback runs, so every action ends    *)
(* with Commit.  Nothing is rendered once the component is unmounted.      *)
(*                                                                         *)
(* The remote service is an input: the flights of a page are those of      *)
(* mockAPI.availableFlights (ids made of searchId, page and index), the    *)
(* reported progress and hasMore are drawn from small sets, and a call may *)
(* also fail, or reject with AbortError once its signal is aborted.        *)
(*                                                                         *)
(* History variables record what the properties speak about and the code  *)
(* does not store: intents counts the calls of the public operations,      *)
(* retired holds the sessions that were active when initializeSearch was   *)
(* called again, the stale field marks the requests in flight when the     *)
(* filters changed, lastFailure is the kind of the last transport failure  *)
(* not yet followed by a user intent or a success, and lastPage is the     *)
(* highest page requested in the current epoch.  LiveSpec adds that every  *)
(* transport call eventually resolves.                                     *)
(***************************************************************************)
EXTENDS Integers, Sequences, FiniteSets, TLC

\* ---- bounds of the model
MaxIntents == 3
MaxPolls == 3
Limit == 2
TotalFlights == 4

\* ---- program constants
NoSearch == 0
NoCtrl == 0
NoTimer == 0
FirstPage == 1
Complete == 100

NoError == "null"
NoFailure == "none"
NoPage == 0
DefaultFilters == "any"
FilterValues == {"any", "cheap"}
ProgressValues == {25, 100}

VARIABLES
  searchId, flights, searchProgress, loading, hasMore, error, filters,
  currentPage,
  abortControllerRef, pollingTimeoutRef, isPollingRef, filtersRef, pageRef,
  rendered,
  aborted, polls, inits, timers, deferred, nextCtrl, unmounted, intents,
  retired, lastFailure, lastPage

stateVars == <<searchId, flights, searchProgress, loading, hasMore, error,
               filters, currentPage>>
pollVars == <<abortControllerRef, pollingTimeoutRef, isPollingRef, aborted,
              polls, timers, nextCtrl>>
vars == <<searchId, flights, searchProgress, loading, hasMore, error, filters,
          currentPage, abortControllerRef, pollingTimeoutRef, isPollingRef,
          filtersRef, pageRef, rendered, aborted, polls, inits, timers,
          deferred, nextCtrl, unmounted, intents, retired, lastFailure,
          lastPage>>

SearchIds == 1..MaxIntents

Min(a, b) == IF a < b THEN a ELSE b
Max(a, b) == IF a > b THEN a ELSE b

\* ---- the service: mockAPI.availableFlights
PageLength(page) == Max(0, Min(Limit, TotalFlights - (page - 1) * Limit))

availableFlights(sid, page) ==
  [i \in 1..PageLength(page) |-> <<sid, page, i - 1>>]

Responses(sid, page) ==
  { [flights |-> availableFlights(sid, page), searchProgress |-> g,
     hasMore |-> h] : g \in ProgressValues, h \in BOOLEAN }

Init ==
  /\ searchId = NoSearch
  /\ flights = <<>>
  /\ searchProgress = 0
  /\ loading = FALSE
  /\ hasMore = TRUE
  /\ error = NoError
  /\ filters = DefaultFilters
  /\ currentPage = FirstPage
  /\ abortControllerRef = NoCtrl
  /\ pollingTimeoutRef = NoTimer
  /\ isPollingRef = FALSE
  /\ filtersRef = DefaultFilters
  /\ pageRef = FirstPage
  /\ rendered = [searchId |-> NoSearch, hasMore |-> TRUE, loading |-> FALSE]
  /\ aborted = {}
  /\ polls = {}
  /\ inits = {}
  /\ timers = {}
  /\ deferred = [s \in 0..MaxIntents |-> 0]
  /\ nextCtrl = 1
  /\ unmounted = FALSE
  /\ intents = 0
  /\ retired = {}
  /\ lastFailure = NoFailure
  /\ lastPage = NoPage

\* ---- the re-render that follows a handler, and the two ref-sync effects:
\* the closures and the refs of a mounted component show the new state
\* before the next callback runs
Commit ==
  IF unmounted'
  THEN UNCHANGED <<rendered, filtersRef, pageRef>>
  ELSE /\ rendered' = [searchId |-> searchId', hasMore |-> hasMore',
                       loading |-> loading']
       /\ filtersRef' = filters'
       /\ pageRef' = currentPage'

\* ---- cancelCurrentRequest
AbortCurrent(ab) ==
  IF abortControllerRef # NoCtrl THEN ab \cup {abortControllerRef} ELSE ab

ClearPollingTimeout(tms) == { t \in tms : t.id # pollingTimeoutRef }

\* ---- pollFlights, up to its await
\* a guard that forgets the isPollingRef flag
MayStartPollUnguarded(sid) == sid # NoSearch

MayStartPoll(sid) == sid # NoSearch /\ ~isPollingRef

NewRequest(sid, isInitialLoad) ==
  [ctrl |-> nextCtrl, searchId |-> sid, page |-> pageRef,
   filters |-> filtersRef, isInitialLoad |-> isInitialLoad,
   stale |-> FALSE]

CanIssue(sid) == MayStartPoll(sid) => nextCtrl <= MaxPolls

\* history: the highest page requested in the epoch, after pollFlights(sid)
Requested(sid, highest) ==
  IF MayStartPoll(sid) THEN Max(highest, pageRef) ELSE highest

PollStart(sid, isInitialLoad, tms, pls) ==
  IF MayStartPoll(sid)
  THEN /\ isPollingRef' = TRUE
       /\ aborted' = AbortCurrent(aborted)
       /\ timers' = ClearPollingTimeout(tms)
       /\ pollingTimeoutRef' = NoTimer
       /\ abortControllerRef' = nextCtrl
       /\ nextCtrl' = nextCtrl + 1
       /\ polls' = pls \cup {NewRequest(sid, isInitialLoad)}
  ELSE /\ timers' = tms
       /\ polls' = pls
       /\ UNCHANGED <<isPollingRef, aborted, pollingTimeoutRef,
                      abortControllerRef, nextCtrl>>

\* ---- initializeSearch, up to its await
\* history: the sessions that have a page-fetch in flight or a re-poll timer
\* pending when initializeSearch is called
InFlightOrArmed ==
  { p.searchId : p \in polls } \cup { t.searchId : t \in timers }

initializeSearch ==
  /\ ~unmounted
  /\ intents < MaxIntents
  /\ intents' = intents + 1
  /\ loading' = TRUE
  /\ error' = NoError
  /\ flights' = <<>>
  /\ searchProgress' = 0
  /\ currentPage' = FirstPage
  /\ hasMore' = TRUE
  /\ inits' = inits \cup {intents + 1}
  /\ retired' = retired \cup InFlightOrArmed
  /\ lastFailure' = NoFailure
  /\ lastPage' = NoPage
  /\ UNCHANGED <<searchId, filters, pollVars, deferred, unmounted>>
  /\ Commit

\* ---- initializeSearch, from the resolution of mockAPI.initialize
InitResolve(s, ok) ==
  /\ s \in inits
  /\ inits' = inits \ {s}
  /\ IF ok
     THEN /\ CanIssue(s)
          /\ searchId' = s
          /\ PollStart(s, TRUE, timers, polls)
          /\ lastPage' = Requested(s, lastPage)
          /\ lastFailure' = NoFailure
          /\ UNCHANGED <<error, loading>>
     ELSE /\ error' = "create failed"
          /\ loading' = FALSE
          /\ lastFailure' = "initialize"
          /\ UNCHANGED <<searchId, pollVars, lastPage>>
  /\ UNCHANGED <<flights, searchProgress, hasMore, filters, currentPage,
                 deferred, unmounted, intents, retired>>
  /\ Commit

\* ---- updateFilters
\* history: a request in flight when the filters change was issued under
\* the filters of the epoch that ends
Supersede(pls, newFilters) ==
  IF newFilters # filters
  THEN { [p EXCEPT !.stale = TRUE] : p \in pls }
  ELSE pls

updateFilters(newFilters) ==
  /\ ~unmounted
  /\ intents < MaxIntents
  /\ CanIssue(rendered.searchId)
  /\ intents' = intents + 1
  /\ lastFailure' = NoFailure
  /\ filters' = newFilters
  /\ currentPage' = FirstPage
  /\ flights' = <<>>
  /\ hasMore' = TRUE
  /\ lastPage' = Requested(rendered.searchId, NoPage)
  /\ IF rendered.searchId # NoSearch
     THEN PollStart(rendered.searchId, TRUE, timers,
                    Supersede(polls, newFilters))
     ELSE /\ polls' = Supersede(polls, newFilters)
          /\ UNCHANGED <<abortControllerRef, pollingTimeoutRef, isPollingRef,
                         aborted, timers, nextCtrl>>
  /\ UNCHANGED <<searchId, searchProgress, loading, error, inits, deferred,
                 unmounted, retired>>
  /\ Commit

\* ---- loadMore
LoadMoreBlocked == ~rendered.hasMore \/ rendered.loading \/ isPollingRef

loadMore ==
  /\ ~unmounted
  /\ intents < MaxIntents
  /\ intents' = intents + 1
  /\ lastFailure' = NoFailure
  /\ IF LoadMoreBlocked
     THEN UNCHANGED <<currentPage, deferred>>
     ELSE /\ currentPage' = currentPage + 1
          /\ deferred' = [deferred EXCEPT ![rendered.searchId] = @ + 1]
  /\ UNCHANGED <<searchId, flights, searchProgress, loading, hasMore, error,
                 filters, pollVars, inits, unmounted, retired, lastPage>>
  /\ Commit

\* ---- the callback of loadMore's setTimeout(..., 0)
DeferredFire(s) ==
  /\ deferred[s] > 0
  /\ CanIssue(s)
  /\ deferred' = [deferred EXCEPT ![s] = @ - 1]
  /\ PollStart(s, FALSE, timers, polls)
  /\ lastPage' = Requested(s, lastPage)
  /\ UNCHANGED <<stateVars, inits, unmounted, intents, retired,
                 lastFailure>>
  /\ Commit

\* ---- the callback of pollFlights' setTimeout(..., 3000)
TimerFire(t) ==
  /\ t \in timers
  /\ CanIssue(t.searchId)
  /\ PollStart(t.searchId, FALSE, timers \ {t}, polls)
  /\ lastPage' = Requested(t.searchId, lastPage)
  /\ UNCHANGED <<stateVars, inits, deferred, unmounted, intents, retired,
                 lastFailure>>
  /\ Commit

\* ---- pollFlights, from the resolution of mockAPI.availableFlights
RequestCancelled == abortControllerRef \in aborted

ReplacesFlights(isInitialLoad) == isInitialLoad \/ pageRef = FirstPage

MergeFlights(prev, response, isInitialLoad) ==
  IF ReplacesFlights(isInitialLoad)
  THEN response.flights
  ELSE prev \o response.flights

ContinuePolling(response) == response.searchProgress < Complete

\* a finally block that leaves loading as it is
LoadingKept == loading

\* the finally block of pollFlights: setLoading(false)
FinallyLoading == FALSE

\* the response is applied: line 118 neither throws nor returns
Applies == abortControllerRef # NoCtrl /\ ~RequestCancelled

PollSucceeds(p, response) ==
  /\ p \in polls
  /\ polls' = polls \ {p}
  /\ IF abortControllerRef = NoCtrl
     THEN \* reading .signal of null throws a TypeError, caught at line 140
          /\ error' = "TypeError"
          /\ UNCHANGED <<flights, searchProgress, hasMore, timers,
                         pollingTimeoutRef, lastFailure>>
     ELSE IF RequestCancelled
     THEN UNCHANGED <<flights, searchProgress, hasMore, error, timers,
                      pollingTimeoutRef, lastFailure>>
     ELSE /\ flights' = MergeFlights(flights, response, p.isInitialLoad)
          /\ lastFailure' = NoFailure
          /\ searchProgress' = response.searchProgress
          /\ hasMore' = response.hasMore
          /\ error' = NoError
          /\ IF ContinuePolling(response)
             THEN /\ timers' = timers \cup
                                 {[id |-> p.ctrl, searchId |-> p.searchId]}
                  /\ pollingTimeoutRef' = p.ctrl
             ELSE UNCHANGED <<timers, pollingTimeoutRef>>
  /\ isPollingRef' = FALSE
  /\ loading' = FinallyLoading
  /\ UNCHANGED <<searchId, filters, currentPage, abortControllerRef, aborted,
                 inits, deferred, nextCtrl, unmounted, intents, retired,
                 lastPage>>
  /\ Commit

PollFails(p) ==
  /\ p \in polls
  /\ polls' = polls \ {p}
  /\ error' = "fetch failed"
  /\ lastFailure' = "availableFlights"
  /\ isPollingRef' = FALSE
  /\ loading' = FinallyLoading
  /\ UNCHANGED <<searchId, flights, searchProgress, hasMore, filters,
                 currentPage, abortControllerRef, pollingTimeoutRef, aborted,
                 inits, timers, deferred, nextCtrl, unmounted, intents,
                 retired, lastPage>>
  /\ Commit

\* a transport that honours the signal rejects with AbortError
PollAborts(p) ==
  /\ p \in polls
  /\ p.ctrl \in aborted
  /\ polls' = polls \ {p}
  /\ isPollingRef' = FALSE
  /\ loading' = FinallyLoading
  /\ UNCHANGED <<searchId, flights, searchProgress, hasMore, error, filters,
                 currentPage, abortControllerRef, pollingTimeoutRef, aborted,
                 inits, timers, deferred, nextCtrl, unmounted, intents,
                 retired, lastFailure, lastPage>>
  /\ Commit

\* ---- the cleanup of the unmount effect
Teardown ==
  /\ ~unmounted
  /\ unmounted' = TRUE
  /\ aborted' = AbortCurrent(aborted)
  /\ abortControllerRef' = NoCtrl
  /\ timers' = ClearPollingTimeout(timers)
  /\ pollingTimeoutRef' = NoTimer
  /\ isPollingRef' = FALSE
  /\ UNCHANGED <<stateVars, polls, nextCtrl, filtersRef, pageRef, rendered,
                 inits, deferred, intents, retired, lastFailure, lastPage>>

Next ==
  \/ initializeSearch
  \/ \E s \in SearchIds, ok \in BOOLEAN : InitResolve(s, ok)
  \/ \E f \in FilterValues : updateFilters(f)
  \/ loadMore
  \/ \E s \in 0..MaxIntents : DeferredFire(s)
  \/ \E t \in timers : TimerFire(t)
  \/ \E p \in polls :
       \E r \in Responses(p.searchId, p.page) : PollSucceeds(p, r)
  \/ \E p \in polls : PollFails(p)
  \/ \E p \in polls : PollAborts(p)
  \/ Teardown

Spec == Init /\ [][Next]_vars

\* ---- every transport call eventually resolves
CreateSessionResolves(s) == \E ok \in BOOLEAN : InitResolve(s, ok)

PageFetchResolves(c) ==
  \E p \in polls :
    /\ p.ctrl = c
    /\ \/ \E r \in Responses(p.searchId, p.page) : PollSucceeds(p, r)
       \/ PollFails(p)
       \/ PollAborts(p)

LiveSpec ==
  /\ Spec
  /\ \A s \in SearchIds : WF_vars(CreateSessionResolves(s))
  /\ \A c \in 1..MaxPolls : WF_vars(PageFetchResolves(c))

\* ---- vocabulary of the properties
\* the call p is no longer outstanding after the step
Resolved(p) == \A q \in polls' : q.ctrl # p.ctrl

\* the call q is issued by the step
Issued(q) == q \in polls' /\ q.ctrl >= nextCtrl

RepollPending == timers # {}

NoDuplicates(seq) ==
  \A i, j \in DOMAIN seq : i # j => seq[i] # seq[j]

\* the number of deferred polls of loadMore pending for the sessions 1..n
RECURSIVE PendingDeferred(_)
PendingDeferred(n) ==
  IF n = 0 THEN 0 ELSE deferred[n] + PendingDeferred(n - 1)

\* C1: no stale application.  A page-fetch call whose AbortController has
\* been aborted (by a later poll or by the unmount cleanup) changes
\* neither flights nor searchProgress nor hasMore when it resolves.
NoStaleApplication ==
  [][\A p \in polls :
       (Resolved(p) /\ p.ctrl \in aborted)
         => UNCHANGED <<flights, searchProgress, hasMore>>]_vars

SupersessionOnFilterChange ==
  [][/\ \A f \in FilterValues :
          (updateFilters(f) /\ f # filters /\ polls # {})
            => /\ \A p \in polls : p.ctrl \in aborted'
               /\ \E q \in polls' :
                    Issued(q) /\ q.filters = f /\ q.page = FirstPage
     /\ \A p \in polls : (p.stale /\ Resolved(p)) => flights' = flights]_vars

\* C4: epoch reset.  After the filters change, flights is empty until the
\* response to a request issued after the change, carrying the new
\* filters, is merged: no response to a request issued before the change
\* or under other filters makes flights non-empty.
EpochReset ==
  [][(flights = <<>> /\ flights' # <<>>)
       => \A p \in polls :
            Resolved(p) => (p.filters = filters /\ ~p.stale)]_vars

\* C5: no duplicate results.  flights never holds two entries with the
\* same id.
NoDuplicateResults == NoDuplicates(flights)

\* C6: terminal progress halts polling.  Once a response with
\* searchProgress >= 1 has been applied, no re-poll timer is pending.
TerminalProgressHaltsPolling ==
  [][\A p \in polls :
       \A r \in Responses(p.searchId, p.page) :
         (PollSucceeds(p, r) /\ Applies /\ ~ContinuePolling(r))
           => ~RepollPending']_vars

\* C7: no state mutation after teardown.  Once the unmount cleanup has run,
\* no callback changes searchId, flights, searchProgress, loading, hasMore
\* or error.
NoMutationAfterTeardown ==
  [][unmounted => UNCHANGED <<searchId, flights, searchProgress, loading,
                              hasMore, error>>]_vars

\* C8: teardown cancels every pending scheduled poll.  Once the unmount
\* cleanup has run, no page-fetch request is issued.
NoRequestAfterTeardown ==
  [][unmounted => \A q \in polls' : ~Issued(q)]_vars

\* C9: re-initialization cancels the previous epoch.  Once initializeSearch
\* has been called while a session had a page-fetch in flight or a re-poll
\* timer pending, no page-fetch request carries that session's searchId and
\* no response to a request of that session changes flights,
\* searchProgress or hasMore.
ReinitCancelsPreviousEpoch ==
  [][/\ \A q \in polls' : Issued(q) => q.searchId \notin retired'
     /\ \A p \in polls :
          (Resolved(p) /\ p.searchId \in retired)
            => UNCHANGED <<flights, searchProgress, hasMore>>]_vars

\* C10: first poll of a new session.  When the create-session call of
\* initializeSearch returns searchId s, a page-fetch request carrying s and
\* page 1 is issued in the same step.
FirstPollOfNewSession ==
  [][\A s \in SearchIds :
       InitResolve(s, TRUE)
         => \E q \in polls' :
              Issued(q) /\ q.searchId = s /\ q.page = FirstPage]_vars

\* C11: idempotent filter no-op.  updateFilters(f) with f equal to the
\* current filters issues no page-fetch request, aborts nothing and leaves
\* flights, currentPage, hasMore, searchProgress, the pending re-poll timer
\* and the call in flight as they were.
IdempotentFilterNoOp ==
  [][\A f \in FilterValues :
       (updateFilters(f) /\ f = filters)
         => /\ \A q \in polls' : ~Issued(q)
            /\ UNCHANGED <<flights, currentPage, hasMore, searchProgress,
                           timers, polls, aborted>>]_vars

\* C12: poll failure is terminal and preserves results.  When a page-fetch
\* call fails with a non-abort error, error is set, flights is left as it
\* was and no re-poll timer is pending afterwards; and as long as no user
\* intent follows the failure, no re-poll timer issues a page-fetch
\* request.
PollFailureIsTerminal ==
  [][/\ \A p \in polls :
          PollFails(p)
            => error' # NoError /\ flights' = flights /\ ~RepollPending'
     /\ lastFailure = "availableFlights"
          => \A t \in timers :
               TimerFire(t) => \A q \in polls' : ~Issued(q)]_vars

\* C13: initialization failure schedules nothing.  When the create-session
\* call of initializeSearch fails, error is set, and as long as no user
\* intent follows the failure and no other create-session call is pending,
\* no page-fetch request is issued, no response changes flights,
\* searchProgress or hasMore, and error stays set.
InitFailureSchedulesNothing ==
  [][/\ \A s \in SearchIds : InitResolve(s, FALSE) => error' # NoError
     /\ (lastFailure = "initialize" /\ intents' = intents /\ inits = {})
          => /\ \A q \in polls' : ~Issued(q)
             /\ UNCHANGED <<flights, searchProgress, hasMore>>
             /\ error' # NoError]_vars

\* C14: loadMore is a no-op while an operation is in flight or when hasMore
\* is false.  A loadMore call made while a page-fetch or create-session
\* call is outstanding, or while hasMore is false, leaves currentPage
\* unchanged and schedules no deferred poll.
LoadMoreNoOpWhileBusy ==
  [][(loadMore /\ (polls # {} \/ inits # {} \/ ~hasMore))
       => UNCHANGED <<currentPage, deferred>>]_vars

\* C15: the poll issued by updateFilters carries the new values.  The
\* page-fetch request that updateFilters(newFilters) issues carries
\* newFilters and page 1.
UpdateFiltersPollCarriesNewValues ==
  [][\A f \in FilterValues :
       updateFilters(f)
         => \A q \in polls' :
              Issued(q) => (q.filters = f /\ q.page = FirstPage)]_vars

\* C16: merge rule.  An applied response to a request for page 1 sets
\* flights to exactly the response's flights; an applied response to a
\* request for a page p > 1 keeps the previous flights as a prefix and
\* appends the response's flights after it.
MergeRule ==
  [][\A p \in polls :
       \A r \in Responses(p.searchId, p.page) :
         (PollSucceeds(p, r) /\ Applies)
           => IF p.page = FirstPage
              THEN flights' = r.flights
              ELSE flights' = flights \o r.flights]_vars

\* C18: only one scheduled or in-flight poll exists at a time.  Before
\* teardown, the pending re-poll timers, the pending deferred polls of
\* loadMore and the page-fetch calls in flight number at most 1 together.
OneScheduledOrInFlightPoll ==
  ~unmounted
    => Cardinality(timers) + PendingDeferred(MaxIntents) + Cardinality(polls)
         <= 1

\* C19: loadMore is a no-op after a failure.  When the last page-fetch or
\* create-session call ended in a non-abort failure and no user intent
\* followed, a loadMore call leaves currentPage unchanged and schedules no
\* deferred poll.
LoadMoreNoOpAfterFailure ==
  [][(loadMore /\ lastFailure # NoFailure /\ error # NoError)
       => UNCHANGED <<currentPage, deferred>>]_vars

\* C17: no page is skipped.  A loadMore call that passes its guard
\* increments currentPage by exactly 1, and in an epoch whose page 1 has
\* been requested the page-fetch request that a deferred poll of loadMore
\* issues carries at most the page after the highest page requested so
\* far, so the pages requested are consecutive.
NoPageSkipped ==
  [][/\ (loadMore /\ ~LoadMoreBlocked) => currentPage' = currentPage + 1
     /\ \A s \in SearchIds :
          (DeferredFire(s) /\ lastPage >= FirstPage)
            => \A q \in polls' : Issued(q) => q.page <= lastPage + 1]_vars

\* C20: loading is eventually cleared.  If every transport call eventually
\* resolves and the component is not torn down, every state where
\* initializeSearch has set loading to true is eventually followed by a
\* state where loading is false.
LoadingEventuallyCleared == loading ~> (~loading \/ unmounted)

\* initializeSearch's pollFlights call has returned early: the session is
\* created, loading is still true and the call in flight belongs to another
\* session
LoadingEventuallyClearedWitness ==
  /\ ~unmounted
  /\ loading
  /\ inits = {}
  /\ searchId # NoSearch
  /\ polls # {}
  /\ \A p \in polls : p.searchId # searchId
====
